---- MODULE Spec2Model ----
(***************************************************************************)
(* Order placement and inventory consistency of the Market service:        *)
(* MarketService.CreateOrder -> OrderRepository.Create, the cart store     *)
(* (CartRepository) and the seller's product update, over a PostgreSQL     *)
(* database (READ COMMITTED, row locks, autocommit outside transactions).  *)
(*                                                                         *)
(* Committed rows are the variables products' stock/price, carts,          *)
(* cartItems, orders and orderItems.  What a checkout transaction has      *)
(* written but not committed is kept per call (deducted, pendOrder,        *)
(* pendItems, pendCartDel) and reaches the committed rows in Commit only;  *)
(* Rollback discards it.  Amounts are in cents: prices are DECIMAL(10,2)   *)
(* and the float64 sum of a few quantity x price terms, rounded back to    *)
(* DECIMAL(10,2) by the insert, is the exact sum of cents.                 *)
(*                                                                         *)
(* The Auth service's refresh token exchange (authService.RefreshTokens    *)
(* over the refresh_tokens table) is modelled next to it, in SpecAuth.     *)
(***************************************************************************)
EXTENDS Integers, Sequences, FiniteSets, TLC

\* ---------------------------------------------------------------- bounds
NumProducts == 2
NumUsers == 2
NumCalls == 2
MaxQty == 2
MaxStock == 2
MaxPrice == 2
MaxLines == 2
MaxOps == 1
MaxCartOps == 2
NumAdds == 2
MaxTokens == 3
NumRefreshCalls == 2

Products == 1..NumProducts
Users == 1..NumUsers
Calls == 1..NumCalls
AddCalls == 1..NumAdds
Quantities == 1..MaxQty
Prices == 1..MaxPrice
Sizes == {"M"}
Tokens == 1..MaxTokens
RefreshCalls == 1..NumRefreshCalls

NoCall == 0
NoCart == 0

\* the empty token string, and the user_id of a token that has no row
EmptyToken == 0
NoUser == 0

\* color is always bound to nil by AddItem
NullColor == "NULL"

VARIABLES
    products,     \* ids of the products rows, committed
    stock,        \* products.stock, committed
    price,        \* products.price, committed (cents)
    carts,        \* carts rows, committed
    cartItems,    \* cart_items rows, committed
    orders,       \* orders rows, committed
    orderItems,   \* order_items rows, committed
    nextId,       \* the SERIAL sequences of carts, cart_items and orders
    lockOwner,    \* products row locks: the call whose transaction holds the row
    pc,           \* position of each CreateOrder call
    userID,       \* the user of each call
    items,        \* cartItems argument of OrderRepository.Create
    idx,          \* loop index of the lock/validate loop
    currentStock, \* stock read by the lock query, per product
    deducted,     \* uncommitted stock decrements of the transaction
    pendOrder,    \* uncommitted orders row
    pendItems,    \* uncommitted order_items rows
    pendCartDel,  \* carts rows deleted by the uncommitted clear
    result,       \* what the call returned
    errInfo,      \* the values its error message carries
    beginPrice,   \* history: the committed prices when its transaction began
    addPc,        \* position of each AddItem call
    addReq,       \* its request and user
    addCartID,    \* cartID returned by getOrCreateCartID
    opsLeft,      \* cart and catalog operations still to be made
    refreshTokens, \* refresh_tokens rows of the Auth service, by token
    refPc,        \* position of each RefreshTokens call
    refToken,     \* its refreshToken argument
    refUser,      \* storedToken.UserID
    refResult,    \* what the call returned
    refIssued     \* the refresh token of the pair it returned

dbVars == <<products, stock, price, carts, cartItems, orders, orderItems>>
txVars == <<lockOwner, pc, userID, items, idx, currentStock, deducted,
            pendOrder, pendItems, pendCartDel, result, errInfo, beginPrice>>
addVars == <<addPc, addReq, addCartID>>
authVars == <<refreshTokens, refPc, refToken, refUser, refResult, refIssued>>
vars == <<dbVars, nextId, txVars, addVars, opsLeft, authVars>>

\* ------------------------------------------------------------- helpers
RECURSIVE SeqSum(_)
SeqSum(s) == IF s = <<>> THEN 0 ELSE Head(s) + SeqSum(Tail(s))

RECURSIVE OrderByIdDesc(_)
OrderByIdDesc(S) ==
    IF S = {} THEN <<>>
    ELSE LET m == CHOOSE x \in S : \A y \in S : y.id <= x.id
         IN <<m>> \o OrderByIdDesc(S \ {m})

UserCarts(u) == {c \in carts : c.user_id = u}

UserCartRows(u) == {ci \in cartItems : \E c \in UserCarts(u) : c.id = ci.cart_id}

\* SELECT ... FROM cart_items ci JOIN carts c JOIN products p
\* WHERE c.user_id = $1 ORDER BY ci.created_at DESC
\* (created_at grows with the SERIAL id; an upsert keeps created_at)
GetUserCart(u) ==
    LET rows == OrderByIdDesc({ci \in UserCartRows(u) : ci.product_id \in products})
    IN [i \in 1..Len(rows) |->
          [id |-> rows[i].id, product_id |-> rows[i].product_id,
           quantity |-> rows[i].quantity, size |-> rows[i].size,
           product_price |-> price[rows[i].product_id]]]


InsufficientNever(cur, qty) == FALSE

InsufficientOrEqual(cur, qty) == cur <= qty

\* currentStock < item.Quantity
Insufficient(cur, qty) == cur < qty

DeductOne(cur, qty) ==
    IF cur >= qty THEN [rows |-> 1, stock |-> cur - 1]
    ELSE [rows |-> 0, stock |-> cur]

DeductUnconditional(cur, qty) ==
    [rows |-> 1, stock |-> cur - qty]

\* UPDATE products SET stock = stock - $1 WHERE id = $2 AND stock >= $1
DeductStock(cur, qty) ==
    IF cur >= qty THEN [rows |-> 1, stock |-> cur - qty]
    ELSE [rows |-> 0, stock |-> cur]

RECURSIVE DeductAllIgnoringRows(_, _)
DeductAllIgnoringRows(its, view) ==
    IF its = <<>> THEN [ok |-> TRUE, view |-> view]
    ELSE LET it == Head(its)
             r == DeductStock(view[it.product_id], it.quantity)
         IN DeductAllIgnoringRows(Tail(its),
                                  [view EXCEPT ![it.product_id] = r.stock])

RECURSIVE DeductAllStopsSilently(_, _)
DeductAllStopsSilently(its, view) ==
    IF its = <<>> THEN [ok |-> TRUE, view |-> view]
    ELSE LET it == Head(its)
             r == DeductStock(view[it.product_id], it.quantity)
         IN IF r.rows # 1 THEN [ok |-> TRUE, view |-> view]
            ELSE DeductAllStopsSilently(Tail(its),
                                        [view EXCEPT ![it.product_id] = r.stock])

\* the loop of updates over items, on the transaction's view of the rows:
\* ok is FALSE as soon as one update affects no row
RECURSIVE DeductAll(_, _)
DeductAll(its, view) ==
    IF its = <<>> THEN [ok |-> TRUE, view |-> view]
    ELSE LET it == Head(its)
             r == DeductStock(view[it.product_id], it.quantity)
         IN IF r.rows # 1 THEN [ok |-> FALSE, view |-> view]
            ELSE DeductAll(Tail(its),
                           [view EXCEPT ![it.product_id] = r.stock])

LineAmountNoQuantity(it) == it.product_price

\* item.ProductPrice * float64(item.Quantity)
LineAmount(it) == it.product_price * it.quantity

\* totalAmount += item.ProductPrice * float64(item.Quantity)
TotalAmount(its) == SeqSum([i \in 1..Len(its) |-> LineAmount(its[i])])

OrderRowConfirmed(oid, u, total) ==
    [id |-> oid, user_id |-> u, total_amount |-> total,
     status |-> "confirmed", payment_status |-> "paid"]

\* INSERT INTO orders (user_id, total_amount, payment_method,
\* delivery_address): status and payment_status take their column defaults
OrderRow(oid, u, total) ==
    [id |-> oid, user_id |-> u, total_amount |-> total,
     status |-> "pending", payment_status |-> "pending"]

OrderItemRowsNoSize(oid, its) ==
    {[order_id |-> oid, line |-> i, product_id |-> its[i].product_id,
      quantity |-> its[i].quantity, size |-> "",
      price |-> its[i].product_price] : i \in 1..Len(its)}

\* rows of order_items inserted for the order
OrderItemRows(oid, its) ==
    {[order_id |-> oid, line |-> i, product_id |-> its[i].product_id,
      quantity |-> its[i].quantity, size |-> its[i].size,
      price |-> its[i].product_price] : i \in 1..Len(its)}

\* CHECK (stock >= 0)
StockCheck(v) == v >= 0

RowExistsAlways(p) == TRUE

\* the lock query returns a row (no pgx.ErrNoRows)
RowExists(p) == p \in products

RowFreeAlways(p, c) == TRUE

\* a row lock taken FOR UPDATE is free for c when no other transaction holds it
RowFree(p, c) == lockOwner[p] \in {NoCall, c}

\* the order in which a call's lock queries are issued: the order of items
Waiting(c) ==
    /\ pc[c] = "lock"
    /\ ~RowFree(items[c][idx[c]].product_id, c)

WaitsFor(c, d) ==
    /\ Waiting(c)
    /\ lockOwner[items[c][idx[c]].product_id] = d

RECURSIVE Reaches(_, _, _)
Reaches(c, d, n) ==
    \/ WaitsFor(c, d)
    \/ /\ n > 0
       /\ \E e \in Calls : WaitsFor(c, e) /\ Reaches(e, d, n - 1)

InCycle(c) == Reaches(c, c, NumCalls)

\* a carts row deleted by a transaction that has not ended is locked by it
CartLocked(cid) == \E c \in Calls : pc[c] = "commit" /\ cid \in pendCartDel[c]

NoOrder == [id |-> 0, user_id |-> 0, total_amount |-> 0,
            status |-> "", payment_status |-> ""]

\* the values formatted into the error message, 0 where it carries none
NoInfo == [product_id |-> 0, requested |-> 0, available |-> 0]

NoPrices == [p \in Products |-> 0]

NoReq == [user |-> 0, product_id |-> 0, quantity |-> 0, size |-> ""]

\* the dynamic type of the error value CreateOrder returns: the
\* ErrEmptyCart variable, fmt.Errorf without %w (errors.New), fmt.Errorf
\* with %w
ReturnedType(res) ==
    CASE res = "cart is empty" -> "*service.ServiceError"
      [] res \in {"insufficient stock", "product not found",
                  "failed to deduct stock"} -> "*errors.errorString"
      [] OTHER -> "*fmt.wrapError"

\* MarketController.CreateOrder: handleError(c, err, apperrors.Internal(
\* "failed to create order")) answers with the error's own status and
\* message when errors.As finds an *AppError in it, and with the fallback
\* otherwise
HandleError(res) ==
    IF ReturnedType(res) = "*apperrors.AppError"
    THEN [status |-> "AppError.HTTPStatus", message |-> res]
    ELSE [status |-> "500", message |-> "failed to create order"]

\* ---------------------------------------------------------------- init
\* The catalog holds NumProducts products; each user's cart is what
\* AddItem calls have left in it: a sequence of lines in insertion order.
Lines == [product_id : Products, quantity : Quantities, size : Sizes]

RECURSIVE SeqsUpTo(_, _)
SeqsUpTo(S, n) ==
    IF n = 0 THEN {<<>>}
    ELSE LET shorter == SeqsUpTo(S, n - 1)
         IN shorter \cup {Append(s, x) : s \in {t \in shorter : Len(t) = n - 1}, x \in S}

CartLayouts == SeqsUpTo(Lines, MaxLines)

Layouts ==
    {layout \in [Users -> CartLayouts] :
        SeqSum([u \in Users |-> Len(layout[u])]) <= MaxLines}

\* item ids are handed out user by user, in insertion order
RECURSIVE IdBase(_, _)
IdBase(layout, u) == IF u = 1 THEN 0 ELSE IdBase(layout, u - 1) + Len(layout[u - 1])

CartsOf(layout) == {[id |-> u, user_id |-> u] : u \in {v \in Users : layout[v] # <<>>}}

CartItemsOf(layout) ==
    UNION {{[id |-> IdBase(layout, u) + i, cart_id |-> u,
             product_id |-> layout[u][i].product_id,
             quantity |-> layout[u][i].quantity,
             size |-> layout[u][i].size, color |-> NullColor]
            : i \in 1..Len(layout[u])} : u \in Users}

InitTx ==
    /\ lockOwner = [p \in Products |-> NoCall]
    /\ pc = [c \in Calls |-> "start"]
    /\ userID = [c \in Calls |-> 0]
    /\ items = [c \in Calls |-> <<>>]
    /\ idx = [c \in Calls |-> 0]
    /\ currentStock = [c \in Calls |-> [p \in Products |-> 0]]
    /\ deducted = [c \in Calls |-> [p \in Products |-> 0]]
    /\ pendOrder = [c \in Calls |-> NoOrder]
    /\ pendItems = [c \in Calls |-> {}]
    /\ pendCartDel = [c \in Calls |-> {}]
    /\ result = [c \in Calls |-> "none"]
    /\ errInfo = [c \in Calls |-> NoInfo]
    /\ beginPrice = [c \in Calls |-> NoPrices]

InitAdd ==
    /\ addPc = [a \in AddCalls |-> "idle"]
    /\ addReq = [a \in AddCalls |-> NoReq]
    /\ addCartID = [a \in AddCalls |-> NoCart]

\* the Auth service's database before any login, no RefreshTokens call made
InitAuth ==
    /\ refreshTokens = [t \in Tokens |-> [user_id |-> NoUser, revoked |-> FALSE, expired |-> FALSE]]
    /\ refPc = [a \in RefreshCalls |-> "start"]
    /\ refToken = [a \in RefreshCalls |-> EmptyToken]
    /\ refUser = [a \in RefreshCalls |-> NoUser]
    /\ refResult = [a \in RefreshCalls |-> "none"]
    /\ refIssued = [a \in RefreshCalls |-> EmptyToken]

InitDb(layout, st) ==
    /\ products = Products
    /\ stock = st
    /\ price = [p \in Products |-> 1]
    /\ carts = CartsOf(layout)
    /\ cartItems = CartItemsOf(layout)
    /\ orders = {}
    /\ orderItems = {}
    /\ nextId = [cart |-> NumUsers + 1,
                 item |-> SeqSum([u \in Users |-> Len(layout[u])]) + 1,
                 order |-> 1]

Init ==
    /\ \E layout \in Layouts : InitDb(layout, [p \in Products |-> MaxStock])
    /\ InitTx
    /\ InitAdd
    /\ opsLeft = MaxOps
    /\ InitAuth

\* ------------------------------------------------------- CreateOrder
RollbackKeepsStock(c) ==
    /\ stock' = [p \in Products |-> stock[p] - deducted[c][p]]
    /\ UNCHANGED <<products, price, carts, cartItems, orders, orderItems>>

\* defer tx.Rollback(ctx): the transaction's writes are dropped and its
\* row locks released (EndTx)
Rollback(c) == UNCHANGED dbVars

EndTxInfo(c, res, info) ==
    /\ errInfo' = [errInfo EXCEPT ![c] = info]
    /\ beginPrice' = [beginPrice EXCEPT ![c] = NoPrices]
    /\ lockOwner' = [p \in Products |-> IF lockOwner[p] = c THEN NoCall ELSE lockOwner[p]]
    /\ pc' = [pc EXCEPT ![c] = "done"]
    /\ result' = [result EXCEPT ![c] = res]
    /\ deducted' = [deducted EXCEPT ![c] = [p \in Products |-> 0]]
    /\ pendOrder' = [pendOrder EXCEPT ![c] = NoOrder]
    /\ pendItems' = [pendItems EXCEPT ![c] = {}]
    /\ pendCartDel' = [pendCartDel EXCEPT ![c] = {}]
    /\ idx' = [idx EXCEPT ![c] = 0]
    /\ currentStock' = [currentStock EXCEPT ![c] = [p \in Products |-> 0]]

EndTx(c, res) == EndTxInfo(c, res, NoInfo)

Abort(c, res) ==
    /\ Rollback(c)
    /\ EndTx(c, res)
    /\ UNCHANGED <<nextId, userID, items, addVars, opsLeft, authVars>>

ReadCartNoEmptyCheck(c, u) ==
    /\ pc[c] = "start"
    /\ userID' = [userID EXCEPT ![c] = u]
    /\ items' = [items EXCEPT ![c] = GetUserCart(u)]
    /\ pc' = [pc EXCEPT ![c] = "begin"]
    /\ UNCHANGED <<dbVars, nextId, lockOwner, idx, currentStock, deducted,
                   pendOrder, pendItems, pendCartDel, result, errInfo,
                   beginPrice, addVars, opsLeft, authVars>>

\* MarketService.CreateOrder up to the call of orderRepo.Create: the cart
\* is read on the pool, outside any transaction
ReadCart(c, u) ==
    /\ pc[c] = "start"
    /\ userID' = [userID EXCEPT ![c] = u]
    /\ items' = [items EXCEPT ![c] = GetUserCart(u)]
    /\ IF Len(items'[c]) = 0
       THEN /\ pc' = [pc EXCEPT ![c] = "done"]
            /\ result' = [result EXCEPT ![c] = "cart is empty"]
       ELSE /\ pc' = [pc EXCEPT ![c] = "begin"]
            /\ result' = result
    /\ UNCHANGED <<dbVars, nextId, lockOwner, idx, currentStock, deducted,
                   pendOrder, pendItems, pendCartDel, errInfo, beginPrice,
                   addVars, opsLeft, authVars>>

\* OrderRepository.Create: r.db.Begin
Begin(c) ==
    /\ pc[c] = "begin"
    /\ pc' = [pc EXCEPT ![c] = "lock"]
    /\ idx' = [idx EXCEPT ![c] = 1]
    /\ beginPrice' = [beginPrice EXCEPT ![c] = price]
    /\ UNCHANGED <<dbVars, nextId, lockOwner, userID, items, currentStock,
                   deducted, pendOrder, pendItems, pendCartDel, result, errInfo,
                   addVars, opsLeft, authVars>>

\* one turn of the first loop: SELECT stock ... FOR UPDATE, then the
\* comparison with the requested quantity
LockProduct(c) ==
    /\ pc[c] = "lock"
    /\ LET it == items[c][idx[c]]
           p == it.product_id
       IN /\ RowFree(p, c)
          /\ IF ~RowExists(p)
             THEN /\ Rollback(c)
                  /\ EndTxInfo(c, "product not found",
                               [NoInfo EXCEPT !.product_id = p])
             ELSE IF Insufficient(stock[p], it.quantity)
             THEN /\ Rollback(c)
                  /\ EndTxInfo(c, "insufficient stock",
                               [product_id |-> p, requested |-> it.quantity,
                                available |-> stock[p]])
             ELSE /\ lockOwner' = [lockOwner EXCEPT ![p] = c]
                  /\ currentStock' = [currentStock EXCEPT ![c][p] = stock[p]]
                  /\ idx' = [idx EXCEPT ![c] = idx[c] + 1]
                  /\ pc' = [pc EXCEPT ![c] =
                              IF idx[c] = Len(items[c]) THEN "deduct" ELSE "lock"]
                  /\ UNCHANGED <<dbVars, deducted, pendOrder, pendItems,
                                 pendCartDel, result, errInfo, beginPrice>>
    /\ UNCHANGED <<nextId, userID, items, addVars, opsLeft, authVars>>

\* the lock wait is part of a cycle: the database ends one of the waiting
\* transactions, whose lock query returns an error
DeadlockAbort(c) ==
    /\ InCycle(c)
    /\ Abort(c, "failed to lock product")

\* the second loop: one conditional UPDATE per item
Deduct(c) ==
    /\ pc[c] = "deduct"
    /\ LET r == DeductAll(items[c], stock)
       IN IF r.ok
          THEN /\ deducted' = [deducted EXCEPT ![c] =
                                 [p \in Products |-> stock[p] - r.view[p]]]
               /\ pc' = [pc EXCEPT ![c] = "insert"]
               /\ UNCHANGED <<dbVars, lockOwner, pendOrder, pendItems,
                              pendCartDel, result, errInfo, beginPrice, idx,
                              currentStock>>
          ELSE /\ Rollback(c)
               /\ EndTx(c, "failed to deduct stock")
    /\ UNCHANGED <<nextId, userID, items, addVars, opsLeft, authVars>>

\* the total, the INSERT INTO orders and the INSERTs INTO order_items
InsertOrder(c) ==
    /\ pc[c] = "insert"
    /\ pendOrder' = [pendOrder EXCEPT ![c] =
                       OrderRow(nextId.order, userID[c], TotalAmount(items[c]))]
    /\ pendItems' = [pendItems EXCEPT ![c] = OrderItemRows(nextId.order, items[c])]
    /\ nextId' = [nextId EXCEPT !.order = nextId.order + 1]
    /\ pc' = [pc EXCEPT ![c] = "clear"]
    /\ UNCHANGED <<dbVars, lockOwner, userID, items, idx, currentStock, deducted,
                   pendCartDel, result, errInfo, beginPrice, addVars, opsLeft, authVars>>

\* DELETE FROM carts WHERE user_id = $1 (cart_items go by ON DELETE CASCADE);
\* it waits for a carts row another transaction has deleted and not committed
ClearCart(c) ==
    /\ pc[c] = "clear"
    /\ \A row \in UserCarts(userID[c]) : ~CartLocked(row.id)
    /\ pendCartDel' = [pendCartDel EXCEPT ![c] = {row.id : row \in UserCarts(userID[c])}]
    /\ pc' = [pc EXCEPT ![c] = "commit"]
    /\ UNCHANGED <<dbVars, nextId, lockOwner, userID, items, idx, currentStock,
                   deducted, pendOrder, pendItems, result, errInfo, beginPrice,
                   addVars, opsLeft, authVars>>

\* tx.Commit: every write of the transaction becomes visible at once
Commit(c) ==
    /\ pc[c] = "commit"
    /\ stock' = [p \in Products |-> stock[p] - deducted[c][p]]
    /\ orders' = orders \cup {pendOrder[c]}
    /\ orderItems' = orderItems \cup pendItems[c]
    /\ carts' = {row \in carts : row.id \notin pendCartDel[c]}
    /\ cartItems' = {ci \in cartItems : ci.cart_id \notin pendCartDel[c]}
    /\ UNCHANGED <<products, price>>
    /\ EndTx(c, "ok")
    /\ UNCHANGED <<nextId, userID, items, addVars, opsLeft, authVars>>

FailKeepsWrites(c) ==
    /\ pc[c] \in {"begin", "lock", "deduct", "insert", "clear", "commit"}
    /\ RollbackKeepsStock(c)
    /\ EndTx(c, "database error")
    /\ UNCHANGED <<nextId, userID, items, addVars, opsLeft, authVars>>

\* any statement of the transaction, or the commit, fails (connection
\* lost, context cancelled): the deferred Rollback runs
Fail(c) ==
    /\ pc[c] \in {"begin", "lock", "deduct", "insert", "clear", "commit"}
    /\ Abort(c, "database error")

CreateOrder(c) ==
    \/ \E u \in Users : ReadCart(c, u)
    \/ Begin(c)
    \/ LockProduct(c)
    \/ DeadlockAbort(c)
    \/ Deduct(c)
    \/ InsertOrder(c)
    \/ ClearCart(c)
    \/ Commit(c)
    \/ Fail(c)

\* ------------------------------------------------------------- AddItem
\* AddItem calls are numbered in the order they start
FirstIdle(a) == addPc[a] = "idle" /\ \A b \in AddCalls : b < a => addPc[b] # "idle"

\* getOrCreateCartID, first statement: SELECT id FROM carts WHERE user_id = $1
\* LIMIT 1 (no ORDER BY: any of the user's carts rows)
AddSelectCart(a, u, p, q, s) ==
    /\ FirstIdle(a)
    /\ opsLeft > 0
    /\ opsLeft' = opsLeft - 1
    /\ addReq' = [addReq EXCEPT ![a] =
                    [user |-> u, product_id |-> p, quantity |-> q, size |-> s]]
    /\ IF UserCarts(u) = {}
       THEN /\ addPc' = [addPc EXCEPT ![a] = "create"]
            /\ addCartID' = addCartID
       ELSE /\ addPc' = [addPc EXCEPT ![a] = "upsert"]
            /\ \E row \in UserCarts(u) : addCartID' = [addCartID EXCEPT ![a] = row.id]
    /\ UNCHANGED <<dbVars, nextId, txVars, authVars>>

\* getOrCreateCartID, second statement: INSERT INTO carts ... RETURNING id
AddCreateCart(a) ==
    /\ addPc[a] = "create"
    /\ carts' = carts \cup {[id |-> nextId.cart, user_id |-> addReq[a].user]}
    /\ addCartID' = [addCartID EXCEPT ![a] = nextId.cart]
    /\ nextId' = [nextId EXCEPT !.cart = nextId.cart + 1]
    /\ addPc' = [addPc EXCEPT ![a] = "upsert"]
    /\ UNCHANGED <<products, stock, price, cartItems, orders, orderItems, txVars,
                   addReq, opsLeft, authVars>>

\* rows the ON CONFLICT (cart_id, product_id, size, color) target matches:
\* a unique index never matches a key with a NULL column
ConflictRows(cid, p, s, col) ==
    {ci \in cartItems : /\ ci.cart_id = cid
                        /\ ci.product_id = p
                        /\ ci.size = s
                        /\ ci.color = col
                        /\ col # NullColor}

\* the foreign keys of the inserted row: the carts row and the products row
\* must exist
ForeignKeysHold(cid, p) ==
    /\ cid \in {row.id : row \in carts}
    /\ p \in products

\* INSERT INTO cart_items ... ON CONFLICT ... DO UPDATE SET quantity =
\* cart_items.quantity + EXCLUDED.quantity.  The foreign key checks make the
\* insert wait for a transaction that has deleted the carts row or holds the
\* products row FOR UPDATE, and fail if a referenced row is gone
AddUpsert(a) ==
    /\ addPc[a] = "upsert"
    /\ ~CartLocked(addCartID[a])
    /\ RowFree(addReq[a].product_id, NoCall)
    /\ LET req == addReq[a]
           hit == ConflictRows(addCartID[a], req.product_id, req.size, NullColor)
       IN IF ~ForeignKeysHold(addCartID[a], req.product_id)
          THEN UNCHANGED <<cartItems, nextId>>
          ELSE IF hit = {}
          THEN /\ cartItems' = cartItems \cup
                      {[id |-> nextId.item, cart_id |-> addCartID[a],
                        product_id |-> req.product_id,
                        quantity |-> req.quantity,
                        size |-> req.size, color |-> NullColor]}
               /\ nextId' = [nextId EXCEPT !.item = nextId.item + 1]
          ELSE /\ cartItems' = {IF ci \in hit
                                THEN [ci EXCEPT !.quantity = ci.quantity + req.quantity]
                                ELSE ci : ci \in cartItems}
               /\ nextId' = nextId
    /\ addPc' = [addPc EXCEPT ![a] = "idle"]
    /\ addReq' = [addReq EXCEPT ![a] = NoReq]
    /\ addCartID' = [addCartID EXCEPT ![a] = NoCart]
    /\ UNCHANGED <<products, stock, price, carts, orders, orderItems, txVars,
                   opsLeft, authVars>>

AddItem(a) ==
    \/ \E u \in Users, p \in Products, q \in Quantities, s \in Sizes :
          AddSelectCart(a, u, p, q, s)
    \/ AddCreateCart(a)
    \/ AddUpsert(a)

\* -------------------------------------------------- UpdateItem, DeleteItem
\* req.Size of an update: "" keeps the size of the line
UpdateSizes == Sizes \cup {""}

\* cart_id = (SELECT id FROM carts WHERE user_id = $n): the rows of the
\* user's cart when the user has one carts row, no row when the user has
\* none; with several carts rows the statement fails
OwnRows(itemID, u) ==
    IF Cardinality(UserCarts(u)) # 1 THEN {}
    ELSE {ci \in UserCartRows(u) : ci.id = itemID}

\* UPDATE cart_items SET quantity = $1, size = COALESCE(NULLIF($2, ''), size)
\* WHERE id = $3 AND cart_id = (...): one autocommit statement, which waits
\* for a transaction that has deleted the row
UpdateItem(u, itemID, q, s) ==
    /\ opsLeft > 0
    /\ \A ci \in OwnRows(itemID, u) : ~CartLocked(ci.cart_id)
    /\ opsLeft' = opsLeft - 1
    /\ cartItems' = {IF ci \in OwnRows(itemID, u)
                     THEN [ci EXCEPT !.quantity = q,
                                     !.size = IF s = "" THEN ci.size ELSE s]
                     ELSE ci : ci \in cartItems}
    /\ UNCHANGED <<products, stock, price, carts, orders, orderItems, nextId,
                   txVars, addVars, authVars>>

\* DELETE FROM cart_items WHERE id = $1 AND cart_id = (...)
DeleteItem(u, itemID) ==
    /\ opsLeft > 0
    /\ \A ci \in OwnRows(itemID, u) : ~CartLocked(ci.cart_id)
    /\ opsLeft' = opsLeft - 1
    /\ cartItems' = cartItems \ OwnRows(itemID, u)
    /\ UNCHANGED <<products, stock, price, carts, orders, orderItems, nextId,
                   txVars, addVars, authVars>>

ItemIDs == {ci.id : ci \in cartItems}

\* ------------------------------------------------ ProductRepository.Update
\* req.Stock and req.Price are pointers: nil keeps the column (COALESCE)
UpdateRequests ==
    [stockSet : BOOLEAN, stock : -1..MaxStock, priceSet : BOOLEAN, price : Prices]

Coalesce(isSet, v, old) == IF isSet THEN v ELSE old

\* UPDATE products SET price = COALESCE($4, price), stock = COALESCE($5, stock)
\* WHERE id = $9: one autocommit statement, which waits for the row lock and
\* fails as a whole on CHECK (stock >= 0)
UpdateProduct(p, req) ==
    /\ opsLeft > 0
    /\ req.stockSet \/ req.priceSet
    /\ ~req.stockSet => req.stock = 0
    /\ ~req.priceSet => req.price = 1
    /\ p \in products
    /\ RowFree(p, NoCall)
    /\ opsLeft' = opsLeft - 1
    /\ IF StockCheck(Coalesce(req.stockSet, req.stock, stock[p]))
       THEN /\ stock' = [stock EXCEPT ![p] = Coalesce(req.stockSet, req.stock, stock[p])]
            /\ price' = [price EXCEPT ![p] = Coalesce(req.priceSet, req.price, price[p])]
       ELSE UNCHANGED <<stock, price>>
    /\ UNCHANGED <<products, carts, cartItems, orders, orderItems, nextId,
                   txVars, addVars, authVars>>

\* ------------------------------------------------ ProductRepository.Delete
\* DELETE FROM products WHERE id = $1: one autocommit statement, which waits
\* for the row lock of a checkout and for a transaction that has deleted a
\* cart line of the product; the product's cart lines go by ON DELETE CASCADE
DeleteProduct(p) ==
    /\ opsLeft > 0
    /\ p \in products
    /\ RowFree(p, NoCall)
    /\ \A ci \in cartItems : ci.product_id = p => ~CartLocked(ci.cart_id)
    /\ opsLeft' = opsLeft - 1
    /\ products' = products \ {p}
    /\ cartItems' = {ci \in cartItems : ci.product_id # p}
    /\ UNCHANGED <<stock, price, carts, orders, orderItems, nextId, txVars, addVars, authVars>>

Next ==
    \/ \E c \in Calls : CreateOrder(c)
    \/ \E a \in AddCalls : AddItem(a)
    \/ \E u \in Users, i \in ItemIDs, q \in Quantities, s \in UpdateSizes :
          UpdateItem(u, i, q, s)
    \/ \E u \in Users, i \in ItemIDs : DeleteItem(u, i)
    \/ \E p \in Products, req \in UpdateRequests : UpdateProduct(p, req)
    \/ \E p \in Products : DeleteProduct(p)

Spec == Init /\ [][Next]_vars

\* ------------------------------------------------- contention scenarios
\* Two or more checkouts and nothing else: every product has one unit in
\* stock, every cart line asks for one unit, no statement fails for a
\* reason outside the checkout itself.
UnitLines == {l \in Lines : l.quantity = 1}

UnitLayouts == [Users -> SeqsUpTo(UnitLines, NumProducts)]

InitContention ==
    /\ \E layout \in UnitLayouts : InitDb(layout, [p \in Products |-> 1])
    /\ InitTx
    /\ InitAdd
    /\ opsLeft = 0
    /\ InitAuth

NextContention ==
    \E c \in Calls :
        \/ \E u \in Users : ReadCart(c, u)
        \/ Begin(c)
        \/ LockProduct(c)
        \/ DeadlockAbort(c)
        \/ Deduct(c)
        \/ InsertOrder(c)
        \/ ClearCart(c)
        \/ Commit(c)

SpecContention == InitContention /\ [][NextContention]_vars

\* ------------------------------------------------------- cart scenarios
\* Carts that hold at most one line in all, and MaxCartOps cart or catalog
\* operations next to the checkouts: two AddItem calls can run one after
\* the other or at the same time.
CartInitLines == 1

InitCart ==
    /\ \E layout \in Layouts :
          /\ SeqSum([u \in Users |-> Len(layout[u])]) <= CartInitLines
          /\ InitDb(layout, [p \in Products |-> MaxStock])
    /\ InitTx
    /\ InitAdd
    /\ opsLeft = MaxCartOps
    /\ InitAuth

\* the one checkout that runs next to the cart operations
CartCalls == {c \in Calls : \A d \in Calls : c <= d}

\* the cart operations and one checkout, none of whose statements fails
\* for a reason outside the checkout itself
NextCart ==
    \/ \E a \in AddCalls : AddItem(a)
    \/ \E u \in Users, i \in ItemIDs, q \in Quantities, s \in UpdateSizes :
          UpdateItem(u, i, q, s)
    \/ \E u \in Users, i \in ItemIDs : DeleteItem(u, i)
    \/ \E c \in CartCalls, u \in Users : ReadCart(c, u)
    \/ \E c \in CartCalls : Begin(c)
    \/ \E c \in CartCalls : LockProduct(c)
    \/ \E c \in CartCalls : Deduct(c)
    \/ \E c \in CartCalls : InsertOrder(c)
    \/ \E c \in CartCalls : ClearCart(c)
    \/ \E c \in CartCalls : Commit(c)

SpecCart == InitCart /\ [][NextCart]_vars

\* ---------------------------------------------------- variant scenarios
\* Carts whose lines are of two sizes: a cart holds at most one line of a
\* product and size, and can hold two lines of one product in different
\* sizes.
VariantSizes == Sizes \cup {"L"}

VariantLines == [product_id : Products, quantity : Quantities, size : VariantSizes]

OneLinePerKey(cart) ==
    \A i, j \in 1..Len(cart) :
        (cart[i].product_id = cart[j].product_id /\ cart[i].size = cart[j].size)
            => i = j

VariantLayouts ==
    {layout \in [Users -> SeqsUpTo(VariantLines, MaxLines)] :
        /\ SeqSum([u \in Users |-> Len(layout[u])]) <= MaxLines
        /\ \A u \in Users : OneLinePerKey(layout[u])}

InitVariants ==
    /\ \E layout \in VariantLayouts : InitDb(layout, [p \in Products |-> MaxStock])
    /\ InitTx
    /\ InitAdd
    /\ opsLeft = MaxOps
    /\ InitAuth

SpecVariants == InitVariants /\ [][NextCart]_vars

\* ------------------------------------------------------ ample stock
\* Checkouts only, over carts of quantity 1 lines, with every stock large
\* enough for all calls together.  A call that can take a step takes it in
\* the end: a runnable statement is executed, and PostgreSQL's deadlock
\* detector ends a circular wait by failing one of the waiting statements.
AmpleStock == NumCalls * NumProducts

InitAmple ==
    /\ \E layout \in UnitLayouts : InitDb(layout, [p \in Products |-> AmpleStock])
    /\ InitTx
    /\ InitAdd
    /\ opsLeft = 0
    /\ InitAuth

CreateOrderStep(c) ==
    \/ \E u \in Users : ReadCart(c, u)
    \/ Begin(c)
    \/ LockProduct(c)
    \/ DeadlockAbort(c)
    \/ Deduct(c)
    \/ InsertOrder(c)
    \/ ClearCart(c)
    \/ Commit(c)

SpecAmple ==
    /\ InitAmple
    /\ [][NextContention]_vars
    /\ \A c \in Calls : WF_vars(CreateOrderStep(c))

\* ------------------------------------------------------ Auth service
\* authService.Login / RefreshTokens / RevokeToken over the refresh_tokens
\* table.  Every repository call is one autocommit statement on the pool;
\* RefreshTokens runs them one after the other without a transaction.
\* Users of the Auth service are not deleted here, so GetByID finds the user.
marketVars == <<dbVars, nextId, txVars, addVars, opsLeft>>

Stored(t) == refreshTokens[t].user_id # NoUser

\* generateRefreshToken: 32 random bytes, a token no row holds yet
FreshTokens == {t \in Tokens : ~Stored(t) /\ \A o \in Tokens : ~Stored(o) => t <= o}

\* tokenRepository.CreateRefreshToken
CreateRefreshToken(u, t) ==
    [refreshTokens EXCEPT ![t] = [user_id |-> u, revoked |-> FALSE, expired |-> FALSE]]

\* tokenRepository.RevokeRefreshToken: an UPDATE matching the row by token
RevokeRefreshToken(t) ==
    IF t \in Tokens /\ Stored(t)
    THEN [refreshTokens EXCEPT ![t].revoked = TRUE]
    ELSE refreshTokens

\* tokenRepository.GetRefreshToken: the error it returns, "nil" for none
GetRefreshToken(t) ==
    IF t \notin Tokens \/ ~Stored(t) THEN "ErrTokenNotFound"
    ELSE IF refreshTokens[t].revoked THEN "ErrTokenRevoked"
    ELSE IF refreshTokens[t].expired THEN "ErrTokenExpired"
    ELSE "nil"

RefEnd(a, res) ==
    /\ refPc' = [refPc EXCEPT ![a] = "done"]
    /\ refResult' = [refResult EXCEPT ![a] = res]

\* authService.Login with the right password: generateTokenPair
Login(u) ==
    /\ \E t \in FreshTokens : refreshTokens' = CreateRefreshToken(u, t)
    /\ UNCHANGED <<refPc, refToken, refUser, refResult, refIssued, marketVars>>

\* time passes the expires_at of a stored token
Expire(t) ==
    /\ Stored(t)
    /\ ~refreshTokens[t].expired
    /\ refreshTokens' = [refreshTokens EXCEPT ![t].expired = TRUE]
    /\ UNCHANGED <<refPc, refToken, refUser, refResult, refIssued, marketVars>>

\* authService.RevokeToken
RevokeToken(t) ==
    /\ Stored(t)
    /\ ~refreshTokens[t].revoked
    /\ refreshTokens' = RevokeRefreshToken(t)
    /\ UNCHANGED <<refPc, refToken, refUser, refResult, refIssued, marketVars>>

\* RefreshTokens: validateRefreshToken
RefValidate(a, t) ==
    /\ refPc[a] = "start"
    /\ refToken' = [refToken EXCEPT ![a] = t]
    /\ IF t = EmptyToken
       THEN RefEnd(a, "ErrInvalidToken")
       ELSE /\ refPc' = [refPc EXCEPT ![a] = "get"]
            /\ refResult' = refResult
    /\ UNCHANGED <<refreshTokens, refUser, refIssued, marketVars>>

\* RefreshTokens: s.tokenRepo.GetRefreshToken
RefGet(a) ==
    /\ refPc[a] = "get"
    /\ IF GetRefreshToken(refToken[a]) = "nil"
       THEN /\ refUser' = [refUser EXCEPT ![a] = refreshTokens[refToken[a]].user_id]
            /\ refPc' = [refPc EXCEPT ![a] = "user"]
            /\ refResult' = refResult
       ELSE /\ RefEnd(a, GetRefreshToken(refToken[a]))
            /\ refUser' = refUser
    /\ UNCHANGED <<refreshTokens, refToken, refIssued, marketVars>>

\* RefreshTokens: s.userRepo.GetByID
RefGetByID(a) ==
    /\ refPc[a] = "user"
    /\ refPc' = [refPc EXCEPT ![a] = "revoke"]
    /\ UNCHANGED <<refreshTokens, refToken, refUser, refResult, refIssued, marketVars>>

\* RefreshTokens: s.tokenRepo.RevokeRefreshToken
RefRevoke(a) ==
    /\ refPc[a] = "revoke"
    /\ refreshTokens' = RevokeRefreshToken(refToken[a])
    /\ refPc' = [refPc EXCEPT ![a] = "generate"]
    /\ UNCHANGED <<refToken, refUser, refResult, refIssued, marketVars>>

\* RefreshTokens: s.generateTokenPair
RefGenerate(a) ==
    /\ refPc[a] = "generate"
    /\ \E t \in FreshTokens :
          /\ refreshTokens' = CreateRefreshToken(refUser[a], t)
          /\ refIssued' = [refIssued EXCEPT ![a] = t]
    /\ RefEnd(a, "ok")
    /\ UNCHANGED <<refToken, refUser, marketVars>>

InitAuthOnly ==
    /\ InitDb([u \in Users |-> <<>>], [p \in Products |-> MaxStock])
    /\ InitTx
    /\ InitAdd
    /\ opsLeft = 0
    /\ InitAuth

NextAuth ==
    \/ \E u \in Users : Login(u)
    \/ \E t \in Tokens : Expire(t)
    \/ \E t \in Tokens : RevokeToken(t)
    \/ \E a \in RefreshCalls, t \in Tokens \cup {EmptyToken} : RefValidate(a, t)
    \/ \E a \in RefreshCalls : RefGet(a)
    \/ \E a \in RefreshCalls : RefGetByID(a)
    \/ \E a \in RefreshCalls : RefRevoke(a)
    \/ \E a \in RefreshCalls : RefGenerate(a)

SpecAuth == InitAuthOnly /\ [][NextAuth]_vars

\* ---------------------------------------------------------------- claims
RECURSIVE SetSum(_, _)
\* the sum of f[x] over the finite set S
SetSum(S, f) ==
    IF S = {} THEN 0
    ELSE LET x == CHOOSE y \in S : TRUE IN f[x] + SetSum(S \ {x}, f)

\* the quantity of product p a list of cart items asks for
OrderedQty(its, p) ==
    SeqSum([i \in 1..Len(its) |->
              IF its[i].product_id = p THEN its[i].quantity ELSE 0])

ProductsOf(its) == [i \in 1..Len(its) |-> its[i].product_id]

\* a step taken by call c
CallStep(c) == pc'[c] # pc[c] \/ idx'[c] # idx[c]

\* the step in which call c returns its order
Succeeds(c) == pc[c] = "commit" /\ pc'[c] = "done" /\ result'[c] = "ok"

Errors == {"cart is empty", "insufficient stock", "product not found",
           "failed to lock product", "failed to deduct stock", "database error"}

Done == \A c \in Calls : pc[c] = "done"

NewOrders == orders' \ orders

NewLines == orderItems' \ orderItems

\* the order of call c and one line per item of it appear
OrderPersisted(c) ==
    /\ orders \subseteq orders'
    /\ orderItems \subseteq orderItems'
    /\ Cardinality(NewOrders) = 1
    /\ \A o \in NewOrders :
          /\ o.user_id = userID[c]
          /\ \A l \in NewLines : l.order_id = o.id
          /\ \A l \in orderItems : l.order_id # o.id
    /\ Cardinality(NewLines) = Len(items[c])
    /\ \A i \in 1..Len(items[c]) :
          \E l \in NewLines : /\ l.line = i
                               /\ l.product_id = items[c][i].product_id
                               /\ l.quantity = items[c][i].quantity

\* the carts rows the clear of call c deleted, their lines and every line
\* the order was made from are gone
CartCleared(c) ==
    /\ carts' = {row \in carts : row.id \notin pendCartDel[c]}
    /\ cartItems' = {ci \in cartItems : ci.cart_id \notin pendCartDel[c]}
    /\ \A i \in 1..Len(items[c]) : \A ci \in cartItems' : ci.id # items[c][i].id

FullOutcome(c) ==
    /\ OrderPersisted(c)
    /\ \A p \in Products : stock'[p] = stock[p] - OrderedQty(items[c], p)
    /\ CartCleared(c)
    /\ price' = price

NoOutcome == UNCHANGED dbVars

C2_StockNonNegative ==
    \A p \in Products :
        /\ stock[p] >= 0
        /\ \A c \in Calls : stock[p] - deducted[c][p] >= 0

C2_Witness ==
    \E c \in Calls, p \in Products :
        result[c] = "ok" /\ OrderedQty(items[c], p) = MaxStock /\ stock[p] = 0

\* the calls whose cart is one line asking for one unit of p
SoleRequesters(p) ==
    {c \in Calls : Len(items[c]) = 1 /\ items[c][1].product_id = p
                   /\ items[c][1].quantity = 1}

Requests(c, p) == \E i \in 1..Len(items[c]) : items[c][i].product_id = p

\* C3: of the checkouts that each ask for the one unit in stock of a
\* product, exactly one succeeds, the stock ends at 0 and every other one
\* fails with the insufficient stock error; no two of them succeed.
C3_OneWinner ==
    \A p \in Products :
        /\ \A c, d \in Calls :
              c # d /\ Requests(c, p) /\ Requests(d, p)
                 => ~(result[c] = "ok" /\ result[d] = "ok")
        /\ ( /\ Done
             /\ Cardinality(SoleRequesters(p)) >= 2
             /\ \A e \in Calls \ SoleRequesters(p) : ~Requests(e, p) )
           => /\ Cardinality({c \in SoleRequesters(p) : result[c] = "ok"}) = 1
              /\ \A c \in SoleRequesters(p) :
                    result[c] \in {"ok", "insufficient stock"}
              /\ stock[p] = 0

C3_Witness ==
    \E p \in Products, c, d \in Calls :
        /\ c # d
        /\ {c, d} \subseteq SoleRequesters(p)
        /\ result[c] = "ok"
        /\ result[d] = "insufficient stock"
        /\ stock[p] = 0

\* two calls of different users whose carts were filled [D, E] and [E, D]
ScenarioD(c, d) ==
    /\ userID[c] # userID[d]
    /\ Len(items[c]) = 2 /\ Len(items[d]) = 2
    /\ ProductsOf(items[c]) = <<items[d][2].product_id, items[d][1].product_id>>
    /\ items[c][1].product_id # items[c][2].product_id

CircularWait == \E c \in Calls : InCycle(c)

\* C4: in scenario D no two checkouts ever wait for each other, and once
\* both have returned exactly one has succeeded and the other has failed
\* with the insufficient stock error.
C4_ScenarioD ==
    \A c, d \in Calls :
        ScenarioD(c, d) =>
            /\ ~(WaitsFor(c, d) /\ WaitsFor(d, c))
            /\ (pc[c] = "done" /\ pc[d] = "done") =>
                  \/ result[c] = "ok" /\ result[d] = "insufficient stock"
                  \/ result[d] = "ok" /\ result[c] = "insufficient stock"

AcquiresAscending ==
    \A c \in Calls, p \in Products :
        (lockOwner'[p] = c /\ lockOwner[p] # c)
            => \A q \in Products : lockOwner[q] = c => q < p

\* C5: a checkout takes each product row lock only after all the locks it
\* holds on products of lower id, whatever the order of its cart, and no
\* set of checkouts ever waits in a circle.
C5_LockOrder == [](~CircularWait) /\ [][AcquiresAscending]_vars

\* C6: from the lock query of a checkout on a product until the checkout
\* commits or rolls back, the committed stock of the product is the value
\* that query read and compared.
C6_ValidatedStockIsCurrent ==
    \A c \in Calls, p \in Products :
        lockOwner[p] = c => currentStock[c][p] = stock[p]

C6_Witness ==
    \E c \in Calls, p \in Products :
        /\ lockOwner[p] = c
        /\ pc[c] = "commit"
        /\ orders = {}
        /\ stock[p] = 1
        /\ currentStock[c][p] = 1
        /\ opsLeft = 0

\* C7: a checkout that does not return an order changes no committed row
\* in any of its steps: orders, order lines, stock and carts stay as they
\* were.
C7_FailureChangesNothing ==
    [][\A c \in Calls :
          (CallStep(c) /\ ~Succeeds(c)) => UNCHANGED dbVars]_vars

C7_Witness ==
    \E c \in Calls :
        /\ result[c] \in Errors \ {"cart is empty"}
        /\ nextId.order > 1
        /\ orders = {}
        /\ \A p \in Products : stock[p] = MaxStock
        /\ opsLeft = MaxOps

LinesOf(o) == {l \in orderItems : l.order_id = o.id}

\* C8: the total_amount of every order is the sum of quantity x price
\* over the order's lines.
C8_TotalIsSumOfLines ==
    \A o \in orders :
        o.total_amount =
            SetSum(LinesOf(o), [l \in LinesOf(o) |-> l.quantity * l.price])

C8_Witness ==
    \E o \in orders :
        /\ Cardinality(LinesOf(o)) = 2
        /\ \E l \in LinesOf(o) : l.quantity = 2 /\ l.price = 2
        /\ \E l \in LinesOf(o) : l.price = 1
        /\ o.total_amount >= 5

\* C9: the commit of a successful checkout lowers the stock of every
\* product by the quantity the order holds of it, counted from the value
\* the checkout read under lock, and leaves the stock of every product the
\* order does not hold as it was.
C9_StockLoweredByOrdered ==
    [][\A c \in Calls :
          Succeeds(c) =>
              \A p \in Products :
                  /\ stock'[p] = stock[p] - OrderedQty(items[c], p)
                  /\ Requests(c, p) =>
                        stock'[p] = currentStock[c][p] - OrderedQty(items[c], p)
                  /\ ~Requests(c, p) => stock'[p] = stock[p]]_vars

C9_Witness ==
    \E c \in Calls, p, q \in Products :
        /\ result[c] = "ok"
        /\ p # q
        /\ OrderedQty(items[c], p) = 2 /\ stock[p] = MaxStock - 2
        /\ OrderedQty(items[c], q) = 0 /\ stock[q] = MaxStock
        /\ opsLeft = MaxOps
        /\ Cardinality(orders) = 1

\* C10: when a checkout of user U commits, U has no cart line left.
C10_CartEmptyAtCommit ==
    [][\A c \in Calls :
          Succeeds(c) => UserCartRows(userID[c])' = {}]_vars

\* the cart lines of user u for product p in variant (s, no color)
KeyLines(u, p, s) ==
    {ci \in UserCartRows(u) : ci.product_id = p /\ ci.size = s}

\* the insert statement of AddItem call a runs and succeeds
AddSucceeds(a) ==
    /\ addPc[a] = "upsert"
    /\ addPc'[a] = "idle"
    /\ ForeignKeysHold(addCartID[a], addReq[a].product_id)

\* after the statement of call a the user holds one line of the requested
\* product and variant, with the quantity held before plus the one added
Merged(a) ==
    LET req == addReq[a]
        before == KeyLines(req.user, req.product_id, req.size)
        after == KeyLines(req.user, req.product_id, req.size)'
    IN /\ Cardinality(after) = 1
       /\ \A l \in after :
             l.quantity = SetSum(before, [b \in before |-> b.quantity]) + req.quantity

\* C11: an AddItem for a product and variant the user's cart already holds
\* (from an earlier AddItem with quantity q1) adds its quantity q2 to that
\* line: the cart then holds one line of them with quantity q1 + q2, never
\* two lines.
C11_MergeOnAdd ==
    [][\A a \in AddCalls :
          (AddSucceeds(a) /\ \A b \in AddCalls \ {a} : addPc[b] = "idle")
              => Merged(a)]_vars

\* another AddItem call for the same user, product and variant is in flight
Races(a) ==
    \E b \in AddCalls \ {a} :
        /\ addPc[b] # "idle"
        /\ addReq[b].user = addReq[a].user
        /\ addReq[b].product_id = addReq[a].product_id
        /\ addReq[b].size = addReq[a].size

\* C12: when AddItem calls for the same user, product and variant run at the
\* same time, the statement of each adds its quantity to the one line of
\* them: no quantity is lost and no second line appears.
C12_ConcurrentAddsMerge ==
    [][\A a \in AddCalls : (AddSucceeds(a) /\ Races(a)) => Merged(a)]_vars

\* C13: no user ever holds two cart lines of the same product and variant.
C13_OneLinePerVariant ==
    \A u \in Users, p \in Products, s \in Sizes :
        Cardinality(KeyLines(u, p, s)) <= 1

\* the step in which the context of call c is cancelled (or a statement
\* fails) inside its transaction
Cancelled(c) ==
    /\ pc[c] \in {"lock", "deduct", "insert", "clear", "commit"}
    /\ result'[c] = "database error"

\* nothing of the transaction of c is left: no uncommitted row, no lock
NothingPending(c) ==
    /\ deducted[c] = [p \in Products |-> 0]
    /\ pendOrder[c] = NoOrder
    /\ pendItems[c] = {}
    /\ pendCartDel[c] = {}
    /\ \A p \in Products : lockOwner[p] # c

\* C14: when the context of a checkout is cancelled at any point before the
\* commit has succeeded, the step changes no committed row and leaves
\* nothing of the transaction behind that could become visible later: its
\* uncommitted order, lines, stock decrements and cart deletion are dropped
\* and its locks released.
C14_CancelRollsBack ==
    /\ [][\A c \in Calls :
             Cancelled(c) => (UNCHANGED dbVars /\ NothingPending(c)')]_vars
    /\ [](\A c \in Calls : pc[c] = "done" => NothingPending(c))

C14_Witness ==
    \E c \in Calls :
        /\ result[c] = "database error"
        /\ nextId.order = 2
        /\ \A d \in Calls \ {c} : pc[d] = "start"
        /\ orders = {}
        /\ orderItems = {}
        /\ \A p \in Products : stock[p] = MaxStock
        /\ Len(items[c]) = 2
        /\ Cardinality(UserCartRows(userID[c])) = 2
        /\ opsLeft = MaxOps

\* the lock query of call c on the product of its current line returns
LockReturns(c) ==
    /\ pc[c] = "lock"
    /\ CallStep(c)
    /\ result'[c] \notin {"database error", "failed to lock product"}

\* C15: when the lock query of a checkout reads a stock lower than the
\* quantity its cart line asks for, the checkout fails with the insufficient
\* stock error, which carries the product id, the requested quantity and
\* the stock just read, and changes nothing; the error is returned in no
\* other case.
C15_InsufficientStockDetail ==
    [][\A c \in Calls :
          LockReturns(c) =>
              LET it == items[c][idx[c]]
                  p == it.product_id
              IN /\ (p \in products /\ stock[p] < it.quantity) =>
                        /\ result'[c] = "insufficient stock"
                        /\ errInfo'[c] = [product_id |-> p,
                                          requested |-> it.quantity,
                                          available |-> stock[p]]
                        /\ UNCHANGED dbVars
                 /\ result'[c] = "insufficient stock" =>
                        (p \in products /\ stock[p] < it.quantity)]_vars

C15_Witness ==
    \E c \in Calls :
        /\ result[c] = "insufficient stock"
        /\ errInfo[c].requested = 2
        /\ errInfo[c].available = 1
        /\ stock[errInfo[c].product_id] = 1
        /\ UserCartRows(userID[c]) # {}

\* C16: a checkout of a user whose cart has no line returns the empty cart
\* error in its first step, having taken no lock, created no order row and
\* drawn no order id; it never holds a lock afterwards.
C16_EmptyCartFailsEarly ==
    /\ [][\A c \in Calls :
             (pc[c] = "start" /\ pc'[c] # "start"
                /\ UserCartRows(userID'[c]) = {})
             => /\ result'[c] = "cart is empty"
                /\ pc'[c] = "done"
                /\ UNCHANGED <<dbVars, nextId, lockOwner>>]_vars
    /\ [](\A c \in Calls :
             result[c] = "cart is empty" => NothingPending(c))

C16_Witness ==
    \E c, d \in Calls :
        /\ result[c] = "cart is empty"
        /\ UserCartRows(userID[c]) = {}
        /\ orders = {}
        /\ nextId.order = 1
        /\ pc[d] = "deduct"
        /\ userID[d] # userID[c]

\* C17: a checkout whose lock query finds the product of a cart line
\* deleted fails with the product not found error for that product and
\* changes nothing; no checkout commits an order holding a product that
\* does not exist.
C17_ProductNotFound ==
    [][\A c \in Calls :
          /\ LockReturns(c) =>
                LET p == items[c][idx[c]].product_id
                IN p \notin products =>
                      /\ result'[c] = "product not found"
                      /\ errInfo'[c].product_id = p
                      /\ UNCHANGED dbVars
          /\ Succeeds(c) =>
                \A i \in 1..Len(items[c]) : items[c][i].product_id \in products]_vars

C17_Witness ==
    \E c \in Calls :
        /\ result[c] = "product not found"
        /\ errInfo[c].product_id \notin products
        /\ Len(items[c]) = 2
        /\ items[c][1].product_id \in products
        /\ orders = {}
        /\ \A p \in Products : lockOwner[p] = NoCall

\* the kind of failure a returned error stands for
Cause(res) ==
    CASE res = "cart is empty" -> "EmptyCart"
      [] res = "insufficient stock" -> "InsufficientStock"
      [] res = "product not found" -> "ProductNotFound"
      [] OTHER -> "Internal"

\* C18: the type of the error a checkout returns tells the kind of its
\* failure: two failures of different kinds (empty cart, insufficient
\* stock, product not found, internal) never return errors of the same
\* type.
C18_TypedErrors ==
    \A c, d \in Calls :
        (result[c] \in Errors /\ result[d] \in Errors
            /\ Cause(result[c]) # Cause(result[d]))
        => ReturnedType(result[c]) # ReturnedType(result[d])

\* C19: the commit of a successful checkout adds exactly one orders row,
\* of the checkout's user, with status pending and payment_status pending;
\* no other step adds or changes an orders row.
C19_OneOrderPending ==
    [][/\ \A c \in Calls :
             Succeeds(c) =>
                 /\ Cardinality(NewOrders) = 1
                 /\ \A o \in NewOrders : /\ o.user_id = userID[c]
                                         /\ o.status = "pending"
                                         /\ o.payment_status = "pending"
       /\ (\A c \in Calls : ~Succeeds(c)) => orders' = orders]_vars

C19_Witness ==
    /\ Cardinality(orders) = 2
    /\ \A o \in orders : o.status = "pending" /\ o.payment_status = "pending"
    /\ \A c \in Calls : result[c] = "ok"
    /\ \E o1, o2 \in orders : o1.user_id # o2.user_id

\* C20: the unit price of every line of a new order is a price its product
\* had while the checkout's transaction ran (the committed price when the
\* transaction began or when it committed), and no step changes or removes
\* an existing order or order line.
C20_PriceSnapshot ==
    [][/\ \A c \in Calls :
             Succeeds(c) =>
                 \A l \in NewLines :
                     l.price \in {beginPrice[c][l.product_id], price[l.product_id]}
       /\ orders \subseteq orders'
       /\ orderItems \subseteq orderItems']_vars

\* C21: the commit of a successful checkout adds one order line for each
\* cart line the checkout fetched, with that line's product, quantity and
\* size, all of them lines of the one new order, and nothing else; no other
\* step adds an order line.
C21_OneLinePerCartLine ==
    [][/\ \A c \in Calls :
             Succeeds(c) =>
                 /\ \E f \in [1..Len(items[c]) -> NewLines] :
                       /\ \A l \in NewLines : \E i \in 1..Len(items[c]) : f[i] = l
                       /\ \A i, j \in 1..Len(items[c]) : f[i] = f[j] => i = j
                       /\ \A i \in 1..Len(items[c]) :
                             /\ f[i].product_id = items[c][i].product_id
                             /\ f[i].quantity = items[c][i].quantity
                             /\ f[i].size = items[c][i].size
                 /\ \A l \in NewLines : \A o \in NewOrders : l.order_id = o.id
       /\ (\A c \in Calls : ~Succeeds(c)) => orderItems' = orderItems]_vars

C21_Witness ==
    \E c \in Calls, o \in orders :
        /\ result[c] = "ok"
        /\ o.user_id = userID[c]
        /\ Len(items[c]) = 2
        /\ items[c][1].product_id = items[c][2].product_id
        /\ Cardinality({l \in LinesOf(o) : l.product_id = items[c][1].product_id
                                           /\ l.quantity = 1 /\ l.size = "M"}) = 2
        /\ Cardinality(orders) = 1

\* C22: the stock of a product changes only in the commit of a checkout
\* that holds the product's row lock; no other operation writes it.
C22_StockOnlyByCheckout ==
    [][\A p \in Products :
          stock'[p] # stock[p] =>
              \E c \in Calls : Succeeds(c) /\ lockOwner[p] = c]_vars

BadRequestClass == {"400", "404", "422"}

\* C23: the response to a failed order creation has a status of the
\* bad-request class for an empty cart and for a product not found, the
\* conflict status for insufficient stock, and the generic failure status
\* with a message that is not the internal error text for an internal
\* failure.
C23_ResponseByKind ==
    \A c \in Calls :
        result[c] \in Errors =>
            LET r == HandleError(result[c])
                k == Cause(result[c])
            IN /\ k \in {"EmptyCart", "ProductNotFound"} => r.status \in BadRequestClass
               /\ k = "InsufficientStock" => r.status = "409"
               /\ k = "Internal" => (r.status = "500" /\ r.message # result[c])

\* the positions of a call inside its transaction
InTx == {"lock", "deduct", "insert", "clear", "commit"}

\* C24: a checkout reads its cart lines only inside its transaction: the
\* step that fetches the lines to order is taken after the transaction has
\* begun, never before.
C24_CartReadInTx ==
    [][\A c \in Calls : items'[c] # items[c] => pc[c] \in InTx]_vars

\* the quantity the lines before line i ask of the product of line i
PriorQty(its, i) ==
    SeqSum([j \in 1..(i - 1) |->
              IF its[j].product_id = its[i].product_id THEN its[j].quantity ELSE 0])

\* the conditional decrement of some line of call c affects no row: what
\* the lines before it leave of the stock is less than the line asks for
ZeroRow(c) ==
    \E i \in 1..Len(items[c]) :
        stock[items[c][i].product_id] - PriorQty(items[c], i) < items[c][i].quantity

\* C25: when the conditional decrement of a line affects no row, the
\* checkout ends in that step with the failed-to-deduct error (an internal
\* failure), commits nothing and keeps nothing of its transaction; a
\* checkout goes on to insert and commit an order only when every
\* decrement affected its row.
C25_ZeroRowAborts ==
    [][\A c \in Calls :
          /\ (pc[c] = "deduct" /\ CallStep(c) /\ result'[c] # "database error") =>
                IF ZeroRow(c)
                THEN /\ result'[c] = "failed to deduct stock"
                     /\ Cause(result'[c]) = "Internal"
                     /\ pc'[c] = "done"
                     /\ UNCHANGED dbVars
                     /\ NothingPending(c)'
                ELSE pc'[c] = "insert"
          /\ Succeeds(c) => ~ZeroRow(c)]_vars

C25_Witness ==
    \E c \in Calls :
        /\ result[c] = "failed to deduct stock"
        /\ Len(items[c]) = 2
        /\ OrderedQty(items[c], items[c][1].product_id) = MaxStock + 1
        /\ orders = {}
        /\ \A p \in Products : stock[p] = MaxStock /\ lockOwner[p] = NoCall
        /\ Cardinality(UserCartRows(userID[c])) = 2

\* the ids of the cart lines call c fetched
FetchedIds(c) == {items[c][i].id : i \in 1..Len(items[c])}

\* C26: no cart line is ordered by two checkouts: two calls that both
\* return an order have fetched no cart line in common.
C26_OneCheckoutPerCart ==
    \A c, d \in Calls :
        (c # d /\ result[c] = "ok" /\ result[d] = "ok")
            => FetchedIds(c) \cap FetchedIds(d) = {}

\* C27: every cart line the commit of a checkout removes is a line that
\* checkout fetched and ordered; a line added meanwhile stays in the cart.
C27_ClearsOnlyOrdered ==
    [][\A c \in Calls :
          Succeeds(c) =>
              \A ci \in cartItems \ cartItems' : ci.id \in FetchedIds(c)]_vars

\* the cart call c fetched holds lines of product p in different sizes,
\* each within the stock of p, that together ask for more than the stock
Oversubscribed(c, p) ==
    /\ p \in products
    /\ \E i, j \in 1..Len(items[c]) :
          /\ items[c][i].product_id = p
          /\ items[c][j].product_id = p
          /\ items[c][i].size # items[c][j].size
    /\ \A i \in 1..Len(items[c]) :
          items[c][i].product_id = p => items[c][i].quantity <= stock[p]
    /\ OrderedQty(items[c], p) > stock[p]

\* C28: a checkout whose cart asks, over several lines of different sizes,
\* for more of a product than its stock ends with the insufficient stock
\* error and changes nothing.
C28_SumOverVariants ==
    [][\A c \in Calls :
          (pc[c] \in InTx /\ pc'[c] = "done"
             /\ \E p \in Products : Oversubscribed(c, p))
          => (result'[c] = "insufficient stock" /\ UNCHANGED dbVars)]_vars

\* call c runs in its transaction while every other call runs too, for
\* another user
RunsAmongOthers(c) ==
    /\ pc[c] \in InTx
    /\ \A d \in Calls \ {c} : pc[d] \in InTx /\ userID[d] # userID[c]

\* C29: with stock enough for all of them, each of a set of checkouts that
\* run at the same time for different users ends with a committed order.
C29_AllCommit ==
    \A c \in Calls : RunsAmongOthers(c) ~> (result[c] = "ok")

\* the RefreshTokens calls that exchanged token t for a new pair
Exchanges(t) == {a \in RefreshCalls : refToken[a] = t /\ refResult[a] = "ok"}

\* C30: of all RefreshTokens calls made with one token at most one returns
\* a new pair, and a token that was exchanged is revoked.
C30_ExchangedOnce ==
    \A t \in Tokens :
        /\ Cardinality(Exchanges(t)) <= 1
        /\ Exchanges(t) # {} => refreshTokens[t].revoked
====
